---- MODULE Spec2Model ----
(***************************************************************************)
(* iconhedra.py: the projection and shading pipeline that turns the        *)
(* vertex/face data of a polyhedron into a static or animated SVG icon.    *)
(*                                                                         *)
(* Numbers.  The program computes in IEEE doubles.  Here a float is a      *)
(* fixed-point integer and every arithmetic result is rounded to the grid, *)
(* as a float operation rounds to the nearest double:                      *)
(*   - matrix entries, sines, cosines, unit vectors: units of 1/ONE        *)
(*     (4 decimals);                                                       *)
(*   - vertex coordinates, rotated coordinates: units of 1/UNIT            *)
(*     (5 decimals), so that the "%.4f" formatting of a coordinate drops   *)
(*     a digit, as it drops digits of a double;                            *)
(*   - canvas coordinates: units of 1/PX of a pixel (4 decimals).          *)
(* NaN is the value the program computes for 0.0/0.0.                      *)
(***************************************************************************)
EXTENDS Integers, Sequences, FiniteSets, TLC

\* ------------------------------------------------------------ arithmetic

ONE == 10000
UNIT == 100000
PX == 10000
NaN == -2147483647

Abs(x) == IF x < 0 THEN -x ELSE x

\* a / b rounded to the nearest integer (b > 0), half away from zero
RDiv(a, b) == IF a >= 0 THEN (a + b \div 2) \div b ELSE -((-a + b \div 2) \div b)

\* floor of the square root of n >= 0, by bisection on [lo, hi]
RECURSIVE SqrtSearch(_, _, _)
SqrtSearch(n, lo, hi) ==
    IF lo >= hi THEN lo
    ELSE LET mid == (lo + hi + 1) \div 2
         IN IF mid * mid <= n THEN SqrtSearch(n, mid, hi)
                              ELSE SqrtSearch(n, lo, mid - 1)

ISqrt(n) == SqrtSearch(n, 0, 46340)

RECURSIVE SumSeq(_)
SumSeq(s) == IF s = <<>> THEN 0 ELSE Head(s) + SumSeq(Tail(s))

\* the least and the greatest element of s[lo..hi], by halving
RECURSIVE MinRange(_, _, _)
MinRange(s, lo, hi) ==
    IF lo = hi THEN s[lo]
    ELSE LET mid == (lo + hi) \div 2
             l == MinRange(s, lo, mid)
             r == MinRange(s, mid + 1, hi)
         IN IF l <= r THEN l ELSE r

RECURSIVE MaxRange(_, _, _)
MaxRange(s, lo, hi) ==
    IF lo = hi THEN s[lo]
    ELSE LET mid == (lo + hi) \div 2
             l == MaxRange(s, lo, mid)
             r == MaxRange(s, mid + 1, hi)
         IN IF l >= r THEN l ELSE r

MinSeq(s) == MinRange(s, 1, Len(s))
MaxSeq(s) == MaxRange(s, 1, Len(s))

RECURSIVE Concat(_)
Concat(ss) == IF ss = <<>> THEN <<>> ELSE Head(ss) \o Concat(Tail(ss))

\* ---------------------------------------------------------- trigonometry
\* Angles are in tenths of a degree; every angle the model uses is a
\* multiple of 2.5 degrees.  SinTable[k+1] = sin(k * 2.5 deg) * ONE.

SinTable ==
    << 0, 436, 872, 1305, 1736, 2164, 2588, 3007, 3420, 3827, 4226, 4617,
       5000, 5373, 5736, 6088, 6428, 6756, 7071, 7373, 7660, 7934, 8192,
       8434, 8660, 8870, 9063, 9239, 9397, 9537, 9659, 9763, 9848, 9914,
       9962, 9990, 10000 >>

\* math.sin(math.radians(d)) for d in tenths of a degree
Sin(d) ==
    LET k == (d % 3600) \div 25
    IN IF k <= 36 THEN SinTable[k + 1]
       ELSE IF k <= 72 THEN SinTable[72 - k + 1]
       ELSE IF k <= 108 THEN -SinTable[k - 72 + 1]
       ELSE -SinTable[144 - k + 1]

\* math.cos(math.radians(d))
Cos(d) == Sin(d + 900)

\* ---------------------------------------------------------------- matrices

NaNMatrix == << <<NaN, NaN, NaN>>, <<NaN, NaN, NaN>>, <<NaN, NaN, NaN>> >>

IsNaNMatrix(M) == M[1][1] = NaN

\* A @ B for 3x3 matrices
MatMul(A, B) ==
    IF IsNaNMatrix(A) \/ IsNaNMatrix(B) THEN NaNMatrix
    ELSE [i \in 1..3 |-> [j \in 1..3 |->
            RDiv(A[i][1] * B[1][j] + A[i][2] * B[2][j] + A[i][3] * B[3][j], ONE)]]

\* points @ M: every point a row vector, in coordinate units
RotatePoints(points, M) ==
    IF IsNaNMatrix(M) THEN [p \in 1..Len(points) |-> <<NaN, NaN, NaN>>]
    ELSE [p \in 1..Len(points) |-> [j \in 1..3 |->
            RDiv(points[p][1] * M[1][j] + points[p][2] * M[2][j]
                 + points[p][3] * M[3][j], ONE)]]

\* get_rotation_matrix(rx, ry, rz): Rz @ Ry @ Rx, angles in tenths of a degree
get_rotation_matrix(rx, ry, rz) ==
    LET Rx == << <<ONE, 0, 0>>, <<0, Cos(rx), -Sin(rx)>>, <<0, Sin(rx), Cos(rx)>> >>
        Ry == << <<Cos(ry), 0, Sin(ry)>>, <<0, ONE, 0>>, <<-Sin(ry), 0, Cos(ry)>> >>
        Rz == << <<Cos(rz), -Sin(rz), 0>>, <<Sin(rz), Cos(rz), 0>>, <<0, 0, ONE>> >>
    IN MatMul(MatMul(Rz, Ry), Rx)

\* np.linalg.norm(axis) of an integer vector, in units of 1/ONE
AxisNorm(axis) ==
    ISqrt((axis[1] * axis[1] + axis[2] * axis[2] + axis[3] * axis[3]) * ONE * ONE)

\* get_rotation_matrix_around_axis(axis, angle_deg): the quaternion formula.
\* A zero axis divides 0.0 by 0.0: every entry of the result is NaN.
get_rotation_matrix_around_axis(axis, angle) ==
    LET norm == AxisNorm(axis)
    IN IF norm = 0 THEN NaNMatrix
       ELSE
       LET ax == [k \in 1..3 |-> RDiv(axis[k] * ONE * ONE, norm)]
           a == Cos(angle \div 2)
           s == Sin(angle \div 2)
           b == RDiv(-ax[1] * s, ONE)
           c == RDiv(-ax[2] * s, ONE)
           d == RDiv(-ax[3] * s, ONE)
           aa == RDiv(a * a, ONE)
           bb == RDiv(b * b, ONE)
           cc == RDiv(c * c, ONE)
           dd == RDiv(d * d, ONE)
           bc == RDiv(b * c, ONE)
           ad == RDiv(a * d, ONE)
           ac == RDiv(a * c, ONE)
           ab == RDiv(a * b, ONE)
           bd == RDiv(b * d, ONE)
           cd == RDiv(c * d, ONE)
       IN << <<aa + bb - cc - dd, 2 * (bc - ad), 2 * (bd + ac)>>,
             <<2 * (bc + ad), aa + cc - bb - dd, 2 * (cd - ab)>>,
             <<2 * (bd - ac), 2 * (cd + ab), aa + dd - bb - cc>> >>

\* ------------------------------------------------------- optional values
\* Python's None is the empty tuple, a value v is <<v>>.

None == <<>>
Some(v) == <<v>>
IsNone(o) == o = <<>>
Val(o) == o[1]

\* truth value of an optional number: None and 0.0 are false
TruthyNumber(o) == ~IsNone(o) /\ Val(o) # 0

\* truth value of an optional string or list: None and the empty one are false
TruthySeq(o) == ~IsNone(o) /\ Val(o) # <<>>

\* ------------------------------------------------- the tool's text output
\* The text openscad prints is a sequence of tokens: the sentinel tags, the
\* brackets, numbers (commas and blanks between them are implied) and other
\* text.  A number is written with digits only (int) or as a float literal.

VTAG == [t |-> "<VERTICES>", v |-> 0, int |-> FALSE]
FTAG == [t |-> "<FACES>", v |-> 0, int |-> FALSE]
LTAG == [t |-> "<LIST>", v |-> 0, int |-> FALSE]
LB == [t |-> "[", v |-> 0, int |-> FALSE]
RB == [t |-> "]", v |-> 0, int |-> FALSE]
JUNK == [t |-> "text", v |-> 0, int |-> FALSE]
FloatTok(x) == [t |-> "num", v |-> x, int |-> FALSE]
IntTok(n) == [t |-> "num", v |-> n, int |-> TRUE]
NameTok(n) == [t |-> "name", v |-> n, int |-> FALSE]

\* the character classes of the patterns: of the vertex block and of a
\* vertex group, of the face block and of a face group, of the list block
InClass(cls, tok) ==
    CASE cls = "vertices" -> tok.t \in {"num", "[", "]"}
      [] cls = "vertex" -> tok.t = "num"
      [] cls = "faces" -> tok.t \in {"[", "]"} \/ (tok.t = "num" /\ tok.int)
      [] cls = "face" -> tok.t = "num" /\ tok.int
      [] cls = "list" -> tok.t \in {"name", "[", "]"} \/ (tok.t = "num" /\ tok.int)

\* the end of the run of tokens of the class that starts at position i
RECURSIVE RunEnd(_, _, _)
RunEnd(text, i, cls) ==
    IF i <= Len(text) /\ InClass(cls, text[i]) THEN RunEnd(text, i + 1, cls) ELSE i

\* re.search(r'<TAG>[class]*<TAG>', text): the tokens between the first pair
\* of tags that encloses tokens of the class only, or None
RECURSIVE SearchBlock(_, _, _, _)
SearchBlock(text, tag, cls, i) ==
    IF i > Len(text) THEN None
    ELSE IF text[i] = tag
         THEN LET j == RunEnd(text, i + 1, cls)
              IN IF j <= Len(text) /\ text[j] = tag
                 THEN Some(SubSeq(text, i + 1, j - 1))
                 ELSE SearchBlock(text, tag, cls, i + 1)
         ELSE SearchBlock(text, tag, cls, i + 1)

\* re.findall(r'\[[class]*\]', block): the innermost bracketed groups
RECURSIVE FindGroups(_, _, _)
FindGroups(block, cls, i) ==
    IF i > Len(block) THEN <<>>
    ELSE IF block[i] = LB
         THEN LET j == RunEnd(block, i + 1, cls)
              IN IF j <= Len(block) /\ block[j] = RB
                 THEN <<SubSeq(block, i + 1, j - 1)>> \o FindGroups(block, cls, j + 1)
                 ELSE FindGroups(block, cls, i + 1)
         ELSE FindGroups(block, cls, i + 1)

\* float(f): a literal in coordinate units
ParseFloat(tok) == IF tok.int THEN tok.v * UNIT ELSE tok.v

\* get_polyhedron_data, after the tool has run: the parse of its output.
\* [exc |-> "", vertices, faces] or the exception a line of it raises.
ParsePolyhedron(text) ==
    LET text_vertices == SearchBlock(text, VTAG, "vertices", 1)
        text_faces == SearchBlock(text, FTAG, "faces", 1)
        Failed(e) == [exc |-> e, vertices |-> <<>>, faces |-> <<>>]
    IN IF IsNone(text_vertices) \/ IsNone(text_faces)
       THEN Failed("AttributeError")
       ELSE LET vs == FindGroups(Val(text_vertices), "vertex", 1)
                fs == FindGroups(Val(text_faces), "face", 1)
            IN IF \E k \in 1..Len(vs) : vs[k] = <<>> THEN Failed("ValueError")
               ELSE IF \E k \in 1..Len(fs) : fs[k] = <<>> THEN Failed("ValueError")
               ELSE [exc |-> "",
                     vertices |-> [k \in 1..Len(vs) |->
                                     [c \in 1..Len(vs[k]) |-> ParseFloat(vs[k][c])]],
                     faces |-> [k \in 1..Len(fs) |->
                                     [c \in 1..Len(fs[k]) |-> fs[k][c].v]]]

\* get_polyhedron_list, after the tool has run: the words of the list block
ParseList(text) ==
    LET text_polyhedra == SearchBlock(text, LTAG, "list", 1)
    IN IF IsNone(text_polyhedra) THEN [exc |-> "AttributeError", names |-> <<>>]
       ELSE [exc |-> "",
             names |-> SelectSeq(Val(text_polyhedra),
                                 LAMBDA tok : tok.t \in {"name", "num"})]

\* ------------------------------------------------------------- the scene

view_vector == <<0, 0, 1>>

\* light_source = (1, 2, 3) / |(1, 2, 3)|, in units of 1/ONE
light_source ==
    LET norm == ISqrt((1 * 1 + 2 * 2 + 3 * 3) * ONE * ONE)
    IN [k \in 1..3 |-> RDiv(k * ONE * ONE, norm)]

\* hex_to_rgb: the hex digits after the '#', two per channel
hex_to_rgb(hex_color) ==
    [k \in 1..3 |-> hex_color[2 * k - 1] * 16 + hex_color[2 * k]]

\* the default of --color, '#3498db'
DefaultColor == <<3, 4, 9, 8, 13, 11>>

num_frames == 72
size == 512
\* ambient = 0.3, in units of 1/ONE
ambient == 3000

\* ------------------------------------------------------------ face shader

Cross(u, v) ==
    << u[2] * v[3] - u[3] * v[2],
       u[3] * v[1] - u[1] * v[3],
       u[1] * v[2] - u[2] * v[1] >>

Dot(u, v) == u[1] * v[1] + u[2] * v[2] + u[3] * v[3]

\* x / g truncated toward zero (g > 0)
TDiv(x, g) == IF x >= 0 THEN x \div g ELSE -((-x) \div g)

\* normal / np.linalg.norm(normal) in units of 1/ONE.  The normal is first
\* brought to at most 4 digits per component so that its square fits.
Normalize(normal) ==
    LET big == MaxSeq(<<Abs(normal[1]), Abs(normal[2]), Abs(normal[3])>>)
        g == big \div 1000 + 1
        m == [k \in 1..3 |-> TDiv(normal[k], g)]
        norm == ISqrt(Dot(m, m) * 100)
        Sign(x) == IF x > 0 THEN 1 ELSE IF x < 0 THEN -1 ELSE 0
    IN [k \in 1..3 |->
          LET u == RDiv(m[k] * ONE * 10, norm)
          IN \* a float quotient keeps the sign of a non-zero component
             IF u = 0 THEN Sign(normal[k]) ELSE u]

\* "%.4f" % x for x in coordinate units: 4 decimals, ties to even
Format4(x) ==
    IF x = NaN THEN NaN
    ELSE LET q == x \div 10
             r == x % 10
         IN IF r > 5 \/ (r = 5 /\ q % 2 = 1) THEN q + 1 ELSE q

\* float(s) of a 4-decimal string, back in coordinate units
ParseFloat4(s) == IF s = NaN THEN NaN ELSE s * 10

\* back-face culling: is_visible = np.dot(normal, view_vector) >= 0
IsVisibleStrict(unit) == Dot(unit, view_vector) > 0

IsVisible(unit) == Dot(unit, view_vector) >= 0

\* One face in one frame (the body of the loop over the faces): None for a
\* degenerate face, else the entry appended to frame_faces.
ShadeFace(i, face_indices, rotated_points, base_color_rgb) ==
    LET face_points == [k \in 1..Len(face_indices) |-> rotated_points[face_indices[k] + 1]]
    IN IF face_points[1][1] = NaN
       THEN \* every comparison with NaN is false: not skipped, not visible,
            \* max(0, NaN) = 0
            Some([face_index |-> i,
                  points |-> [k \in 1..Len(face_points) |-> <<NaN, NaN>>],
                  depth |-> NaN,
                  color |-> [c \in 1..3 |-> (base_color_rgb[c] * ambient) \div ONE],
                  visible |-> FALSE])
       ELSE
       LET v1 == [k \in 1..3 |-> face_points[2][k] - face_points[1][k]]
           v2 == [k \in 1..3 |-> face_points[3][k] - face_points[1][k]]
           normal == Cross(v1, v2)
       IN IF normal = <<0, 0, 0>> THEN None
          ELSE
          LET unit == Normalize(normal)
              is_visible == IsVisible(unit)
              d == RDiv(Dot(unit, light_source), ONE)
              diffuse == IF d > 0 THEN d ELSE 0
              shade == ambient + RDiv((ONE - ambient) * diffuse, ONE)
              color == [c \in 1..3 |-> (base_color_rgb[c] * shade) \div ONE]
              points_2d == [k \in 1..Len(face_points) |->
                              <<face_points[k][1], face_points[k][2]>>]
              avg_depth == RDiv(SumSeq([k \in 1..Len(face_points) |-> face_points[k][3]]),
                                Len(face_points))
          IN Some([face_index |-> i, points |-> points_2d, depth |-> avg_depth,
                   color |-> color, visible |-> is_visible])

\* the loop over the faces: frame_faces before the sort
RECURSIVE ShadeFaces(_, _, _, _)
ShadeFaces(i, face_list, rotated_points, base_color_rgb) ==
    IF i >= Len(face_list) THEN <<>>
    ELSE ShadeFace(i, face_list[i + 1], rotated_points, base_color_rgb)
         \o ShadeFaces(i + 1, face_list, rotated_points, base_color_rgb)

\* list.sort(key=depth): stable, ascending.  With NaN keys no comparison
\* is true and the list keeps its order.
RECURSIVE InsertByDepthDescending(_, _)
InsertByDepthDescending(sorted, f) ==
    IF sorted = <<>> THEN <<f>>
    ELSE LET last == sorted[Len(sorted)]
         IN IF f.depth = NaN \/ last.depth = NaN \/ last.depth >= f.depth
            THEN Append(sorted, f)
            ELSE Append(InsertByDepthDescending(SubSeq(sorted, 1, Len(sorted) - 1), f), last)

RECURSIVE InsertByDepth(_, _)
InsertByDepth(sorted, f) ==
    IF sorted = <<>> THEN <<f>>
    ELSE LET last == sorted[Len(sorted)]
         IN IF f.depth = NaN \/ last.depth = NaN \/ last.depth <= f.depth
            THEN Append(sorted, f)
            ELSE Append(InsertByDepth(SubSeq(sorted, 1, Len(sorted) - 1), f), last)

RECURSIVE SortByDepth(_)
SortByDepth(fs) ==
    IF fs = <<>> THEN <<>>
    ELSE InsertByDepth(SortByDepth(SubSeq(fs, 1, Len(fs) - 1)), fs[Len(fs)])

\* points_str of a face: "x,y" with 4 decimals for each point
PointsStr(points) == [k \in 1..Len(points) |-> <<Format4(points[k][1]), Format4(points[k][2])>>]

\* the loop that stores the animation values of one frame
RECURSIVE StoreValues(_, _)
StoreValues(anims, frame_faces) ==
    IF frame_faces = <<>> THEN anims
    ELSE LET face_data == Head(frame_faces)
             idx == face_data.face_index + 1
             rec == anims[idx]
         IN StoreValues(
              [anims EXCEPT ![idx] =
                 [points_values |-> Append(rec.points_values, PointsStr(face_data.points)),
                  color_values |-> Append(rec.color_values, face_data.color),
                  visibility_values |-> Append(rec.visibility_values,
                        IF face_data.visible THEN "visible" ELSE "hidden")]],
              Tail(frame_faces))

\* ------------------------------------------------------------ SVG emitter

\* p * scale + offset for p in coordinate units, in units of 1/PX pixel, with
\*   scale  = 0.9 * size / (max_coord - min_coord)
\*   offset = -min_coord * scale + (size - (max_coord - min_coord) * scale) / 2
\* The sum is 0.9 * size * (p - min_coord) / (max_coord - min_coord)
\* + 0.05 * size; it is evaluated exactly and rounded once.
ScaleCoord(p, min_coord, max_coord) ==
    IF p = NaN \/ min_coord = NaN \/ max_coord = min_coord THEN NaN
    ELSE LET range == max_coord - min_coord
             num == (p - min_coord) * 9 * size
             q == num \div range
             r == num % range
         IN q * (PX \div 10) + RDiv(r * (PX \div 10), range) + (size * PX) \div 20

\* min and max over all x and y of the rotated points
AllXY(points) == [k \in 1..2 * Len(points) |-> points[(k + 1) \div 2][2 - (k % 2)]]
MinCoord(points) == MinSeq(AllXY(points))
MaxCoord(points) == MaxSeq(AllXY(points))

\* the static branch's scaling of one face's points
ScalePoints(points, lo, hi) ==
    [k \in 1..Len(points) |-> <<ScaleCoord(points[k][1], lo, hi),
                                ScaleCoord(points[k][2], lo, hi)>>]

\* scale_points_from_str followed by format_points_to_str
scale_points_from_str(points_str, lo, hi) ==
    [k \in 1..Len(points_str) |->
        <<ScaleCoord(ParseFloat4(points_str[k][1]), lo, hi),
          ScaleCoord(ParseFloat4(points_str[k][2]), lo, hi)>>]

\* the three Animate elements of one polygon
Animations(dur, points_values, color_values, visibility_values) ==
    << [attributeName |-> "points", dur |-> dur, values |-> points_values,
        repeatCount |-> "indefinite", calcMode |-> ""],
       [attributeName |-> "fill", dur |-> dur, values |-> color_values,
        repeatCount |-> "indefinite", calcMode |-> ""],
       [attributeName |-> "visibility", dur |-> dur, values |-> visibility_values,
        repeatCount |-> "indefinite", calcMode |-> "discrete"] >>

\* the polygon of one face of the static image
StaticPolygon(face, lo, hi) ==
    [face_index |-> face.face_index,
     points |-> ScalePoints(face.points, lo, hi),
     fill |-> face.color,
     visibility |-> "",
     animate |-> <<>>]

\* the polygon of one face of the animated image
AnimatedPolygon(i, anim_data, dur, lo, hi) ==
    LET scaled_points_list ==
            [k \in 1..Len(anim_data.points_values) |->
                scale_points_from_str(anim_data.points_values[k], lo, hi)]
    IN [face_index |-> i,
        points |-> scaled_points_list[1],
        fill |-> anim_data.color_values[1],
        visibility |-> anim_data.visibility_values[1],
        animate |-> Animations(dur, scaled_points_list, anim_data.color_values,
                               anim_data.visibility_values)]

\* the faces the animated branch writes: those with a recorded value
RECURSIVE AnimatedPolygons(_, _, _, _, _)
AnimatedPolygons(i, anims, dur, lo, hi) ==
    IF i >= Len(anims) THEN <<>>
    ELSE (IF anims[i + 1].points_values = <<>> THEN <<>>
          ELSE <<AnimatedPolygon(i, anims[i + 1], dur, lo, hi)>>)
         \o AnimatedPolygons(i + 1, anims, dur, lo, hi)

\* ----------------------------------------------------------------- inputs
\* Vertex coordinates are in coordinate units (1/UNIT); faces hold 0-based
\* vertex indices.

\* half the edge of the cubes, 0.02
CubeHalf == 2 * 1000

CubeVertices ==
    << <<-CubeHalf, -CubeHalf, -CubeHalf>>, <<CubeHalf, -CubeHalf, -CubeHalf>>,
       <<CubeHalf, CubeHalf, -CubeHalf>>, <<-CubeHalf, CubeHalf, -CubeHalf>>,
       <<-CubeHalf, -CubeHalf, CubeHalf>>, <<CubeHalf, -CubeHalf, CubeHalf>>,
       <<CubeHalf, CubeHalf, CubeHalf>>, <<-CubeHalf, CubeHalf, CubeHalf>> >>

\* an axis-aligned cube, its faces wound clockwise seen from outside
\* (OpenSCAD's convention for polyhedron())
Cube ==
    [vertices |-> CubeVertices,
     faces |-> << <<0, 1, 2, 3>>, <<4, 5, 1, 0>>, <<7, 6, 5, 4>>,
                  <<5, 6, 2, 1>>, <<6, 7, 3, 2>>, <<7, 4, 0, 3>> >>]

\* the same cube, its faces wound counter-clockwise seen from outside
CubeCCW ==
    [vertices |-> CubeVertices,
     faces |-> << <<3, 2, 1, 0>>, <<0, 1, 5, 4>>, <<4, 5, 6, 7>>,
                  <<1, 2, 6, 5>>, <<2, 3, 7, 6>>, <<3, 0, 4, 7>> >>]

\* a tetrahedron (0, 2, 3, 4) with a redundant vertex 1 on its edge 0-2: the
\* first three vertices of its base face are collinear
Wedge ==
    [vertices |-> << <<0, 0, 0>>, <<1000, 0, 0>>, <<3000, 0, 0>>,
                     <<0, 3000, 0>>, <<0, 0, 3000>> >>,
     faces |-> << <<0, 1, 2, 3>>, <<0, 4, 2, 1>>, <<2, 4, 3>>, <<3, 4, 0>> >>]

Polyhedra == <<Cube, CubeCCW, Wedge>>

\* what openscad echoes for a polyhedron
GeometryText(P) ==
    <<JUNK, VTAG, LB>>
    \o Concat([k \in 1..Len(P.vertices) |->
                 <<LB, FloatTok(P.vertices[k][1]), FloatTok(P.vertices[k][2]),
                   FloatTok(P.vertices[k][3]), RB>>])
    \o <<RB, VTAG, JUNK, FTAG, LB>>
    \o Concat([k \in 1..Len(P.faces) |->
                 <<LB>> \o [c \in 1..Len(P.faces[k]) |-> IntTok(P.faces[k][c])] \o <<RB>>])
    \o <<RB, FTAG, JUNK>>

\* what openscad prints otherwise: nothing recognisable (an unknown name, a
\* failed run), empty lists, empty blocks, the list of names
NoGeometryText == <<JUNK>>
EmptyListsText == <<VTAG, LB, RB, VTAG, JUNK, FTAG, LB, RB, FTAG>>
EmptyBlocksText == <<VTAG, VTAG, JUNK, FTAG, FTAG>>
ListText == <<JUNK, LTAG, LB, NameTok(2), NameTok(1), RB, LTAG>>

\* the tool: not installed, or what it prints
Tools ==
    {[present |-> FALSE, out |-> <<>>]}
    \cup {[present |-> TRUE, out |-> t] :
            t \in {GeometryText(Polyhedra[k]) : k \in 1..Len(Polyhedra)}
                  \cup {NoGeometryText, EmptyListsText, EmptyBlocksText, ListText}}

\* A string of comma-separated parts: the parts; a part is a number or not.
Num(n) == [num |-> TRUE, v |-> n]
NotNum == [num |-> FALSE, v |-> 0]

\* values of --orientation: absent, '', '0,0,0', '1,2', 'x,0,0'
OrientationArgs ==
    {None, Some(<<>>), Some(<<Num(0), Num(0), Num(0)>>),
     Some(<<Num(1), Num(2)>>), Some(<<NotNum, Num(0), Num(0)>>)}

\* values of --rotation-axis: absent, '0,0,0', '0,0,1', '1,1,0', '1,2,3,4'
AxisArgs ==
    {None, Some(<<Num(0), Num(0), Num(0)>>), Some(<<Num(0), Num(0), Num(1)>>),
     Some(<<Num(1), Num(1), Num(0)>>), Some(<<Num(1), Num(2), Num(3), Num(4)>>)}

\* values of --animation: absent, 0, 10
AnimationArgs == {None, Some(0), Some(10)}

\* the parsed command lines
Args ==
    [polyhedron : {None, Some("cube")},
     file : {None, Some("poly.scad")},
     list : BOOLEAN,
     animation : AnimationArgs,
     color : {DefaultColor},
     orientation : OrientationArgs,
     rotation_axis : AxisArgs]

\* values of random.uniform(0, 360), three at a time, in tenths of a degree:
\* the first MaxRandom of these samples
MaxRandom == 2
RandomSamples == << <<200, 300, 0>>, <<1125, 2250, 450>>, <<3000, 150, 1800>>,
                   <<75, 3325, 2400>> >>
RandomOrientations == {RandomSamples[k] : k \in 1..MaxRandom}

\* ------------------------------------------------------------------ state

VARIABLES
    args,                       \* the parsed command line
    tool,                       \* the openscad of this run
    pc,                         \* where the run is
    status,                     \* "running", "exit0", "exit1" or the exception raised
    msgs,                       \* what was printed
    tool_calls,                 \* how often openscad was run
    call,                       \* the arguments of generate_icon
    points_3d, faces,           \* the loaded geometry
    initial_rotation,
    frame,                      \* the loop variable of the frame loop
    face_animations,
    all_frames_rotated_points,
    faces_to_draw,
    dwg,                        \* the drawing: its polygons, its file, saved or not
    axis_calls,                 \* the axes get_rotation_matrix_around_axis was given
    rot_log,                    \* rot_matrix of each frame processed
    bbox_source                 \* what the bounding box was taken over

vars == <<args, tool, pc, status, msgs, tool_calls, call, points_3d, faces,
          initial_rotation, frame, face_animations, all_frames_rotated_points,
          faces_to_draw, dwg, axis_calls, rot_log, bbox_source>>

geometry == <<points_3d, faces, initial_rotation>>
loop == <<frame, face_animations, all_frames_rotated_points, faces_to_draw,
          axis_calls, rot_log>>

NoCall == [output_file |-> <<>>, animation_duration |-> None,
           orientation |-> None, rotation_axis |-> None]

Init ==
    /\ args \in Args
    /\ tool \in Tools
    /\ pc = "main"
    /\ status = "running"
    /\ msgs = <<>>
    /\ tool_calls = 0
    /\ call = NoCall
    /\ points_3d = <<>>
    /\ faces = <<>>
    /\ initial_rotation = <<>>
    /\ frame = 0
    /\ face_animations = <<>>
    /\ all_frames_rotated_points = <<>>
    /\ faces_to_draw = <<>>
    /\ dwg = [polygons |-> <<>>, file |-> <<>>, saved |-> FALSE]
    /\ axis_calls = {}
    /\ rot_log = <<>>
    /\ bbox_source = ""

\* the run ends: sys.exit, a return to the end of the script, or an exception
Finish(s, printed) ==
    /\ pc' = "done"
    /\ status' = s
    /\ msgs' = msgs \o printed

\* --------------------------------------------------------- the main script

\* [float(v) for v in value.split(',')] and the check of the length:
\* the list, or None when a part is no number or there are not three
ParseVector(parts) ==
    IF (\E k \in 1..Len(parts) : ~parts[k].num) \/ Len(parts) # 3 THEN None
    ELSE Some([k \in 1..Len(parts) |-> parts[k].v])

\* an option is validated only when it is given and not the empty string
Invalid(opt) == TruthySeq(opt) /\ IsNone(ParseVector(Val(opt)))

Parsed(opt) == IF TruthySeq(opt) THEN ParseVector(Val(opt)) ELSE None

\* os.path.splitext(os.path.basename(args.file))[0], or the polyhedron's name
NamePart == IF ~IsNone(args.file) THEN "poly" ELSE Val(args.polyhedron)

\* --file and a polyhedron name together
MainExclusive ==
    /\ pc = "main"
    /\ ~IsNone(args.file) /\ ~IsNone(args.polyhedron)
    /\ Finish("exit1", <<"Error: --file and polyhedron name are mutually exclusive.">>)
    /\ UNCHANGED <<args, tool, tool_calls, call, geometry, loop, dwg, bbox_source>>

\* --list: get_polyhedron_list and the printing of the names
MainList ==
    /\ pc = "main"
    /\ ~(~IsNone(args.file) /\ ~IsNone(args.polyhedron))
    /\ args.list
    /\ tool_calls' = tool_calls + 1
    /\ IF ~tool.present THEN Finish("FileNotFoundError", <<>>)
       ELSE LET r == ParseList(tool.out)
            IN IF r.exc # "" THEN Finish(r.exc, <<>>)
               ELSE IF r.names = <<>> THEN Finish("exit0", <<>>)
               ELSE Finish("exit0", <<"Available polyhedra:">>)
    /\ UNCHANGED <<args, tool, call, geometry, loop, dwg, bbox_source>>

\* neither a name nor a file: the help text
MainHelp ==
    /\ pc = "main"
    /\ ~args.list
    /\ IsNone(args.file) /\ IsNone(args.polyhedron)
    /\ Finish("exit1", <<"usage">>)
    /\ UNCHANGED <<args, tool, tool_calls, call, geometry, loop, dwg, bbox_source>>

\* a name or a file: an option that does not validate ends the run
MainInvalid ==
    /\ pc = "main"
    /\ ~args.list
    /\ IsNone(args.file) # IsNone(args.polyhedron)
    /\ \/ /\ Invalid(args.orientation)
          /\ Finish("exit1",
                <<"Error: --orientation must be three comma-separated numbers (e.g., '20,0,0').">>)
       \/ /\ ~Invalid(args.orientation)
          /\ Invalid(args.rotation_axis)
          /\ Finish("exit1",
                <<"Error: --rotation-axis must be three comma-separated numbers (e.g., '1,1,0').">>)
    /\ UNCHANGED <<args, tool, tool_calls, call, geometry, loop, dwg, bbox_source>>

\* a name or a file, the options valid: the call of generate_icon
MainGenerate ==
    /\ pc = "main"
    /\ ~args.list
    /\ IsNone(args.file) # IsNone(args.polyhedron)
    /\ ~Invalid(args.orientation)
    /\ ~Invalid(args.rotation_axis)
    /\ call' = [output_file |-> <<IF TruthyNumber(args.animation) THEN "anim_" ELSE "icon_",
                                 NamePart, ".svg">>,
                animation_duration |-> args.animation,
                orientation |-> Parsed(args.orientation),
                rotation_axis |-> Parsed(args.rotation_axis)]
    /\ pc' = "generate_icon"
    /\ UNCHANGED <<args, tool, status, msgs, tool_calls, geometry, loop, dwg, bbox_source>>

\* ------------------------------------------------------------ generate_icon

\* get_polyhedron_data raises: openscad is not installed, or its output has
\* no vertex or face block, or a group of it is empty
LoadRaises ==
    /\ pc = "generate_icon"
    /\ tool_calls' = tool_calls + 1
    /\ IF ~tool.present THEN Finish("FileNotFoundError", <<>>)
       ELSE /\ ParsePolyhedron(tool.out).exc # ""
            /\ Finish(ParsePolyhedron(tool.out).exc, <<>>)
    /\ UNCHANGED <<args, tool, call, geometry, loop, dwg, bbox_source>>

\* get_polyhedron_data returns no vertex: the message, and the return
LoadEmpty ==
    /\ pc = "generate_icon"
    /\ tool.present
    /\ ParsePolyhedron(tool.out).exc = ""
    /\ ParsePolyhedron(tool.out).vertices = <<>>
    /\ tool_calls' = tool_calls + 1
    /\ Finish("exit0", <<"Could not retrieve data">>)
    /\ UNCHANGED <<args, tool, call, geometry, loop, dwg, bbox_source>>

\* steps 1 to 3 up to the frame loop
Load ==
    /\ pc = "generate_icon"
    /\ tool.present
    /\ LET data == ParsePolyhedron(tool.out)
       IN /\ data.exc = ""
          /\ data.vertices # <<>>
          /\ points_3d' = data.vertices
          /\ faces' = data.faces
          /\ face_animations' =
                [k \in 1..Len(data.faces) |->
                    [points_values |-> <<>>, color_values |-> <<>>,
                     visibility_values |-> <<>>]]
    /\ tool_calls' = tool_calls + 1
    /\ IF TruthySeq(call.orientation)
       THEN LET o == Val(call.orientation)
            IN initial_rotation' = get_rotation_matrix(10 * o[1], 10 * o[2], 10 * o[3])
       ELSE \E r \in RandomOrientations :
                initial_rotation' = get_rotation_matrix(r[1], r[2], r[3])
    /\ frame' = 0
    /\ pc' = "frames"
    /\ msgs' = Append(msgs, "Generating animation frames...")
    /\ UNCHANGED <<args, tool, status, call, all_frames_rotated_points, faces_to_draw,
                   dwg, axis_calls, rot_log, bbox_source>>

\* angle of a frame, in tenths of a degree: (360 / num_frames) * frame
Angle(f) == (3600 \div num_frames) * f

\* rotation_axis or [0, 1, 0]
Axis == IF TruthySeq(call.rotation_axis) THEN Val(call.rotation_axis) ELSE <<0, 1, 0>>

\* rot_matrix of a frame
RotMatrix(f) ==
    IF TruthyNumber(call.animation_duration)
    THEN MatMul(get_rotation_matrix_around_axis(Axis, Angle(f)), initial_rotation)
    ELSE initial_rotation

\* frame_faces of a frame, sorted
FrameFaces(rotated_points) ==
    SortByDepth(ShadeFaces(0, faces, rotated_points, hex_to_rgb(args.color)))

\* the static image stops after the first frame
StaticBreak == IsNone(call.animation_duration) /\ frame = 0

\* one pass of the frame loop
Frame ==
    /\ pc = "frames"
    /\ LET rot_matrix == RotMatrix(frame)
           rotated_points == RotatePoints(points_3d, rot_matrix)
           frame_faces == FrameFaces(rotated_points)
       IN /\ axis_calls' = axis_calls \cup {Axis}
          /\ rot_log' = Append(rot_log, rot_matrix)
          /\ all_frames_rotated_points' =
                IF TruthyNumber(call.animation_duration)
                THEN Append(all_frames_rotated_points, rotated_points)
                ELSE all_frames_rotated_points
          /\ face_animations' = StoreValues(face_animations, frame_faces)
          /\ IF StaticBreak
             THEN /\ faces_to_draw' = SelectSeq(frame_faces, LAMBDA f : f.visible)
                  /\ frame' = frame
                  /\ pc' = "emit"
             ELSE /\ faces_to_draw' = faces_to_draw
                  /\ frame' = frame + 1
                  /\ pc' = IF frame + 1 < num_frames THEN "frames" ELSE "emit"
    /\ UNCHANGED <<args, tool, status, msgs, tool_calls, call, geometry, dwg, bbox_source>>

\* all_rotated_points: what the bounding box is taken over
AllRotatedPoints ==
    IF TruthyNumber(call.animation_duration)
    THEN Concat(all_frames_rotated_points)
    ELSE RotatePoints(points_3d, initial_rotation)

BBoxSource == IF TruthyNumber(call.animation_duration) THEN "all frames" ELSE "initial rotation"

\* step 4, the static image: a polygon for each face to draw, and the save
EmitStatic ==
    /\ pc = "emit"
    /\ IsNone(call.animation_duration)
    /\ LET lo == MinCoord(AllRotatedPoints)
           hi == MaxCoord(AllRotatedPoints)
       IN dwg' = [polygons |-> [k \in 1..Len(faces_to_draw) |->
                                   StaticPolygon(faces_to_draw[k], lo, hi)],
                  file |-> call.output_file,
                  saved |-> TRUE]
    /\ bbox_source' = BBoxSource
    /\ Finish("exit0", <<"Successfully generated icon">>)
    /\ UNCHANGED <<args, tool, tool_calls, call, geometry, loop>>

\* the polygons of the animated image
EmitPolygons ==
    AnimatedPolygons(0, face_animations, Val(call.animation_duration),
                     MinCoord(AllRotatedPoints), MaxCoord(AllRotatedPoints))

\* a polygon with a NaN coordinate: the drawing library validates the
\* coordinates of a polygon and raises TypeError
HasNaN(polygon) ==
    \E k \in 1..Len(polygon.points) : polygon.points[k][1] = NaN \/ polygon.points[k][2] = NaN

\* step 4, the animated image: a polygon with three animations for each face
\* that has recorded values, and the save
EmitAnimated ==
    /\ pc = "emit"
    /\ ~IsNone(call.animation_duration)
    /\ ~\E k \in 1..Len(EmitPolygons) : HasNaN(EmitPolygons[k])
    /\ dwg' = [polygons |-> EmitPolygons, file |-> call.output_file, saved |-> TRUE]
    /\ bbox_source' = BBoxSource
    /\ Finish("exit0", <<"Successfully generated icon">>)
    /\ UNCHANGED <<args, tool, tool_calls, call, geometry, loop>>

\* step 4, the animated image, a NaN coordinate: nothing is saved
EmitRejected ==
    /\ pc = "emit"
    /\ ~IsNone(call.animation_duration)
    /\ \E k \in 1..Len(EmitPolygons) : HasNaN(EmitPolygons[k])
    /\ bbox_source' = BBoxSource
    /\ Finish("TypeError", <<>>)
    /\ UNCHANGED <<args, tool, tool_calls, call, geometry, loop, dwg>>

Next ==
    \/ MainExclusive
    \/ MainList
    \/ MainHelp
    \/ MainInvalid
    \/ MainGenerate
    \/ LoadRaises
    \/ LoadEmpty
    \/ Load
    \/ Frame
    \/ EmitStatic
    \/ EmitAnimated
    \/ EmitRejected

Spec == Init /\ [][Next]_vars

\* ====================================================================
\* Properties
\* ====================================================================

\* generate_icon was given an animation duration
Animated == ~IsNone(call.animation_duration)

\* the run wrote its file
Saved == pc = "done" /\ dwg.saved

\* the number of frames the loop has completed
FramesDone == Len(rot_log)

\* v1 x v2 of face i (0-based) in the given rotated points
FaceNormal(i, pts) ==
    LET f == faces[i + 1]
    IN Cross([k \in 1..3 |-> pts[f[2] + 1][k] - pts[f[1] + 1][k]],
             [k \in 1..3 |-> pts[f[3] + 1][k] - pts[f[1] + 1][k]])

\* mean rotated z of face i (0-based)
FaceDepth(i, pts) ==
    LET f == faces[i + 1]
    IN RDiv(SumSeq([k \in 1..Len(f) |-> pts[f[k] + 1][3]]), Len(f))

FaceIds == 0..(Len(faces) - 1)

\* the faces that have a polygon in the file
Drawn == {dwg.polygons[k].face_index : k \in 1..Len(dwg.polygons)}

\* the points of the first frame
InitialPoints == RotatePoints(points_3d, initial_rotation)

\* C1: in animation mode every polygon written carries three value lists
\* (points, fill, visibility) of exactly num_frames = 72 entries each, and the
\* three animations share the duration and repeat indefinitely - for every
\* polyhedron, also one with a face that is degenerate in some frame.
C1_SeventyTwoEntries ==
    (Saved /\ Animated) =>
        \A k \in 1..Len(dwg.polygons) :
            LET an == dwg.polygons[k].animate
            IN /\ Len(an) = 3
               /\ \A j \in 1..3 :
                    /\ Len(an[j].values) = num_frames
                    /\ an[j].dur = Val(call.animation_duration)
                    /\ an[j].repeatCount = "indefinite"

\* C2: the animated image (a duration other than 0) has a polygon for face i
\* if and only if face i was visible in at least one frame, and the polygons
\* are in increasing face index.
C2_PolygonIffEverVisible ==
    (Saved /\ TruthyNumber(call.animation_duration)) =>
        /\ \A i \in FaceIds :
              (i \in Drawn) <=>
                  (\E k \in 1..Len(face_animations[i + 1].visibility_values) :
                        face_animations[i + 1].visibility_values[k] = "visible")
        /\ \A k \in 1..(Len(dwg.polygons) - 1) :
              dwg.polygons[k].face_index < dwg.polygons[k + 1].face_index

\* C3: without an animation duration the loop processes exactly one frame,
\* frame 0 with the initial orientation, and the file holds one polygon for
\* each non-degenerate front-facing face of that frame and nothing else, in
\* non-decreasing depth.
C3_StaticOneFrame ==
    /\ (IsNone(call.animation_duration) /\ pc \in {"emit", "done"} /\ points_3d # <<>>) =>
            /\ FramesDone = 1
            /\ frame = 0
            /\ rot_log[1] = initial_rotation
    /\ (Saved /\ IsNone(call.animation_duration)) =>
            /\ Drawn = {i \in FaceIds :
                           /\ FaceNormal(i, InitialPoints) # <<0, 0, 0>>
                           /\ FaceNormal(i, InitialPoints)[3] >= 0}
            /\ Len(dwg.polygons) = Cardinality(Drawn)
            /\ \A k \in 1..Len(dwg.polygons) : dwg.polygons[k].animate = <<>>
            /\ \A k \in 1..(Len(dwg.polygons) - 1) :
                  FaceDepth(dwg.polygons[k].face_index, InitialPoints)
                      <= FaceDepth(dwg.polygons[k + 1].face_index, InitialPoints)

\* a static image of several faces, not all of them, that the sort reordered
C3_Witness ==
    /\ Saved /\ IsNone(call.animation_duration)
    /\ Len(dwg.polygons) >= 3
    /\ Len(dwg.polygons) < Len(faces)
    /\ \E k \in 1..(Len(dwg.polygons) - 1) :
          /\ dwg.polygons[k].face_index > dwg.polygons[k + 1].face_index
          /\ FaceDepth(dwg.polygons[k].face_index, InitialPoints)
                < FaceDepth(dwg.polygons[k + 1].face_index, InitialPoints)

\* the run renders a cube at orientation (0, 0, 0) as a static image
StaticCubeAtZero ==
    /\ Saved /\ IsNone(call.animation_duration)
    /\ points_3d = CubeVertices /\ Len(faces) = 6
    /\ call.orientation = Some(<<0, 0, 0>>)

\* the faces whose normal is +Z
PlusZ == {i \in FaceIds : LET n == FaceNormal(i, InitialPoints)
                          IN n[1] = 0 /\ n[2] = 0 /\ n[3] > 0}

Depths == {FaceDepth(i, InitialPoints) : i \in FaceIds}

\* C4 as claimed: for the cube at orientation (0, 0, 0) exactly one face is
\* marked visible, the one whose normal is +Z, the static image holds exactly
\* one polygon, and the depth of that face is the minimum of the six.
C4_OneVisibleFace ==
    StaticCubeAtZero =>
        /\ Len(faces_to_draw) = 1
        /\ Len(dwg.polygons) = 1
        /\ Drawn = PlusZ
        /\ \A i \in PlusZ : \A d \in Depths : FaceDepth(i, InitialPoints) <= d

\* C4 amended: five faces are marked visible and drawn - the one whose
\* normal is +Z and the four whose normal is perpendicular to the view vector
\* (normal . view = 0 passes the >= test); the face left out is the one whose
\* normal is -Z.  The depth of the +Z face is the minimum of the six when the
\* faces are wound clockwise seen from outside, the maximum when they are
\* wound counter-clockwise.
C4_FiveVisibleFaces ==
    StaticCubeAtZero =>
        /\ Cardinality(PlusZ) = 1
        /\ Len(faces_to_draw) = 5
        /\ Len(dwg.polygons) = 5
        /\ Drawn = {i \in FaceIds : FaceNormal(i, InitialPoints)[3] >= 0}
        /\ PlusZ \subseteq Drawn
        /\ Cardinality({i \in Drawn : FaceNormal(i, InitialPoints)[3] = 0}) = 4
        /\ \A i \in PlusZ : \A d \in Depths :
              /\ faces = Cube.faces => FaceDepth(i, InitialPoints) <= d
              /\ faces = CubeCCW.faces => FaceDepth(i, InitialPoints) >= d

\* the cube in OpenSCAD's winding, drawn with five polygons
C4_Witness ==
    /\ StaticCubeAtZero
    /\ faces = Cube.faces
    /\ Len(dwg.polygons) = 5

\* the tool ran and its output has no vertex block or no face block
NoGeometry ==
    /\ tool.present
    /\ \/ IsNone(SearchBlock(tool.out, VTAG, "vertices", 1))
       \/ IsNone(SearchBlock(tool.out, FTAG, "faces", 1))

\* C5: when the tool's output has no vertex or no face block (an unknown
\* polyhedron name), generate_icon ends with the message that no data could
\* be retrieved, no exception escapes, and no file is written.
C5_NoDataReported ==
    (pc = "done" /\ call # NoCall /\ NoGeometry) =>
        /\ \E k \in 1..Len(msgs) : msgs[k] = "Could not retrieve data"
        /\ status \in {"exit0", "exit1"}
        /\ ~dwg.saved

\* an option value that is given and is not three comma-separated numbers
NotThreeNumbers(opt) == ~IsNone(opt) /\ IsNone(ParseVector(Val(opt)))

\* C6: in a run that renders (a name or a file, no --list), a given
\* --orientation or --rotation-axis that is not three comma-separated numbers
\* ends the run with exit status 1 and an error message, the tool never
\* invoked and no file written.
C6_ValidatedBeforeTool ==
    (/\ ~args.list
     /\ IsNone(args.file) # IsNone(args.polyhedron)
     /\ NotThreeNumbers(args.orientation) \/ NotThreeNumbers(args.rotation_axis)) =>
        /\ tool_calls = 0
        /\ ~dwg.saved
        /\ pc \in {"main", "done"}
        /\ pc = "done" => status = "exit1" /\ msgs # <<>>

\* C7: in animation mode, after every completed frame the three lists of a
\* face have the same length, every face that has entries has one per
\* completed frame, and the last visibility entry of a face that is not
\* degenerate in that frame is "hidden" exactly when normal . view < 0.
C7_AlignedKeyframes ==
    (Animated /\ pc \in {"frames", "emit", "done"} /\ FramesDone > 0) =>
        \A i \in FaceIds :
            LET rec == face_animations[i + 1]
                n == Len(rec.points_values)
            IN /\ Len(rec.color_values) = n
               /\ Len(rec.visibility_values) = n
               /\ n = 0 \/ n = FramesDone
               /\ ~IsNaNMatrix(rot_log[FramesDone]) =>
                    LET normal == FaceNormal(i, RotatePoints(points_3d, rot_log[FramesDone]))
                    IN normal # <<0, 0, 0>> =>
                         /\ n > 0
                         /\ rec.visibility_values[n] =
                               IF normal[3] < 0 THEN "hidden" ELSE "visible"

\* the coordinates a polygon carries: its points and its points keyframes
PolygonCoords(polygon) ==
    {polygon.points[k][c] : k \in 1..Len(polygon.points), c \in 1..2}
    \cup (IF polygon.animate = <<>> THEN {}
          ELSE UNION {{polygon.animate[1].values[v][k][c] :
                            k \in 1..Len(polygon.animate[1].values[v]), c \in 1..2} :
                      v \in 1..Len(polygon.animate[1].values)})

\* C8: every coordinate of every polygon written, in every keyframe, lies in
\* [0.05 * size, 0.95 * size] - stated for the runs whose rotation axis is not
\* the zero vector and whose duration, if given, is not 0.
C8_InsideCentral90 ==
    (/\ Saved
     /\ <<0, 0, 0>> \notin axis_calls
     /\ IsNone(call.animation_duration) \/ TruthyNumber(call.animation_duration)) =>
        \A k \in 1..Len(dwg.polygons) : \A x \in PolygonCoords(dwg.polygons[k]) :
            /\ x >= (size * PX) \div 20
            /\ x <= (19 * size * PX) \div 20

\* C9: get_rotation_matrix_around_axis is never given the zero vector.
C9_NoZeroAxis == <<0, 0, 0>> \notin axis_calls

\* C10: when the file holds attribute animations, the frame loop ran all 72
\* frames, each with the animation rotation composed with the initial
\* rotation, the bounding box was taken over all frames, and the file is
\* named anim_<name>.svg.
C10_ModesAgree ==
    (Saved /\ \E k \in 1..Len(dwg.polygons) : dwg.polygons[k].animate # <<>>) =>
        /\ FramesDone = num_frames
        /\ \A f \in 1..FramesDone :
              rot_log[f] = MatMul(get_rotation_matrix_around_axis(Axis, Angle(f - 1)),
                                  initial_rotation)
        /\ bbox_source = "all frames"
        /\ dwg.file[1] = "anim_"

====
